---- MODULE Spec2Model ----
(***************************************************************************)
(* Model of the RainClassroomAssistant fetch-and-cache pipeline:           *)
(*   Scripts/AsyncDownloader.py  AsyncImageDownloader, AsyncPPTDownloadManager *)
(*   Scripts/PPTManager.py       PPTManager                                *)
(*   Scripts/AIAnswerAnalyzer.py AIAnswerAnalyzer answer cache             *)
(* The specifications share the variables:                                 *)
(*   SpecFetch        a caller's successive direct calls of download_image *)
(*   SpecFetchShared  the same calls with a second writer of the cache     *)
(*   SpecRetry        one run of download_with_retry                       *)
(*   SpecRetryShared  the same run on a cache directory that loses files   *)
(*   SpecBatch        the same run with task faults and any retry budget   *)
(*   SpecPresentation successive download_presentation calls               *)
(*   SpecPPT          successive generate_ppt runs over one cache directory *)
(*   SpecPaths        cache directories of two collections                 *)
(*   SpecTitles       PPTManager construction and start() in threads       *)
(*   SpecStart        one PPTManager.start(): download, retry, generate_ppt *)
(*   SpecAnswers      save, load and merge of cached answers               *)
(***************************************************************************)
EXTENDS Integers, Sequences, FiniteSets, TLC

(* ------------------------------ bounds -------------------------------- *)
\* number of slides (assets) of the collection
NumSlides == 2
\* max_concurrent handed to AsyncImageDownloader (a constructor argument)
MaxConcurrent == 1
\* direct calls of download_image per asset explored by SpecFetch
MaxCalls == 2
\* generate_ppt calls explored by SpecPPT
MaxRuns == 2
\* seconds the wall clock may advance in SpecPPT
MaxClock == 2
\* most failing attempts a planned source serves before it succeeds (SpecRetry)
MaxPlan == 3
\* download_presentation calls explored by SpecPresentation
MaxPresentations == 2

(* ------------------------- program constants -------------------------- *)
\* AsyncImageDownloader.__init__ max_retries default (the manager never overrides it)
DownloaderMaxRetries == 3
\* AsyncPPTDownloadManager.__init__ max_retries default
ManagerMaxRetries == 5
\* minimum byte count of a payload and of a valid cached image
MinImageBytes == 10

Slides == 1..NumSlides

\* plan of a source whose first k fetch attempts fail and whose later ones succeed
Planned(k) == [kind |-> "planned", k |-> k]
\* plan of a source whose every fetch attempt fails
Always == [kind |-> "always", k |-> 0]
\* plan of a source whose attempts may each fail or succeed
Free == [kind |-> "free", k |-> 0]
\* plan of a slide whose source serves good payloads while the files written for
\* it cannot be removed (os.remove raises, as for a file another process holds open)
Locked == [kind |-> "locked", k |-> 0]

\* the slide dict has no 'cover' key
KeyAbsent == "KeyAbsent"

(* ------------------------------ files --------------------------------- *)
\* A file is what the code can observe of it: existence, byte size, whether
\* PIL decodes it, and its bytes (data, an abstract content identity).
Absent == [exists |-> FALSE, size |-> 0, image |-> FALSE, data |-> 0]
\* the canonical JPEG that _sync_process_image writes for a good payload
Jpeg == [exists |-> TRUE, size |-> 20, image |-> TRUE, data |-> 1]
\* a cached image that is present but does not decode
Corrupt == [exists |-> TRUE, size |-> 20, image |-> FALSE, data |-> 2]
\* a file shorter than the minimum byte count
Tiny == [exists |-> TRUE, size |-> 5, image |-> FALSE, data |-> 3]
\* a file whose writer failed or has not finished
Partial == [exists |-> TRUE, size |-> 12, image |-> FALSE, data |-> 4]
\* raw payloads as written to <index>_temp
RawGood == [exists |-> TRUE, size |-> 20, image |-> TRUE, data |-> 5]
RawBad == [exists |-> TRUE, size |-> 20, image |-> FALSE, data |-> 6]

\* cache states a call can find at <index>.jpg
CacheStates == {Absent, Jpeg, Corrupt, Tiny}

VARIABLES
  cover,          \* cover[i]: the slide's source URL ("" = empty)
  skip_existing,  \* AsyncImageDownloader.skip_existing
  plan,           \* plan[i]: failing attempts the source serves before succeeding
  max_retries,    \* AsyncImageDownloader.max_retries
  final,          \* final[i]: file at <img_path>/<index>.jpg
  temp,           \* temp[i]: file at <img_path>/<index>_temp
  semaphore,      \* value of AsyncImageDownloader.semaphore
  pc,             \* pc[i]: position of the download_image task of slide i
  attempt,        \* attempt[i]: loop variable of download_image's retry loop
  fate,           \* fate[i]: outcome of the attempt in progress
  res,            \* res[i]: dict returned by the latest download_image call
  fails,          \* fails[i]: failed attempts so far (history)
  netCalls,       \* netCalls[i]: session.get calls of the current/latest call (history)
  calls,          \* calls[i]: download_image calls made for slide i (history)
  preFinal,       \* preFinal[i]: final[i] when the current/latest call started (history)
  preTemp,        \* preTemp[i]: temp[i] when the current/latest call started (history)
  prev,           \* prev[i]: res[i] of the call before the current one (history)
  modified,       \* modified[i]: final[i] changed externally since the latest return
  prevModified,   \* prevModified[i]: modified[i] when the current call started
  cb,             \* cb[i]: progress_callback invocations for slide i in the current
                  \* call (SpecFetch) or download_slides batch (history)
  mpc,            \* position of download_with_retry
  round,          \* loop variable `attempt` of download_with_retry
  remaining,      \* remaining_slides
  all_successful, \* all_successful (slide indexes of the collected results)
  batch,          \* bookkeeping of the download_slides call in progress
  report,         \* dict returned by download_with_retry
  pres,           \* bookkeeping of the latest download run (history)
  dispatched,     \* dispatched[i]: rounds that created a fetch task for slide i (history)
  problem,        \* problem[i]: the slide carries a 'problem' (an owed annotation)
  fontOK,         \* the overlay font file can be loaded on this machine
  manager,        \* a PPTManager instance exists
  md5_list,       \* PPTManager.md5_list of the instance
  timeinfo,       \* PPTManager.timeinfo of the instance
  clock,          \* wall clock, in the one-second steps of timeinfo
  rootPdf,        \* the file <downloadpath>/<title>.pdf
  docs,           \* docs[n]: the .pdf files of the lesson download directory
  runsLog,        \* one record per finished generate_ppt call (history)
  coll,           \* coll[c]: the (lesson name, title) key of collection c
  cachefs,        \* files under downloads\rainclasscache: [dir, file, by, via]
  title_dict,     \* PPTManager.title_dict (a class attribute): its keys
  inst,           \* inst[t]: the PPTManager instance of thread t: [title, pc]
  cacheFile,      \* the answer-cache JSON file of one (lesson, title)
  lastSave,       \* arguments of the last save_cached_answers call
  loaded,         \* result of the last load_cached_answers call
  merge,          \* last get_cached_answers_for_problems call: [called, problems, result]
  startRun        \* the PPTManager.start() call in progress: [pc, faults]

taskVars == <<final, temp, semaphore, pc, attempt, fate, res, fails, netCalls,
              calls, preFinal, preTemp, prev, modified, prevModified, cb>>
inputVars == <<cover, skip_existing, plan, max_retries>>
mgrVars == <<mpc, round, remaining, all_successful, batch, report, pres, dispatched>>
pathVars == <<coll, cachefs>>
titleVars == <<title_dict, inst>>
answerVars == <<cacheFile, lastSave, loaded, merge>>
startVars == <<startRun>>
auxVars == <<pathVars, titleVars, answerVars, startVars>>
docVars == <<problem, fontOK, manager, md5_list, timeinfo, clock, rootPdf, docs, runsLog>>
pptVars == <<docVars, auxVars>>
vars == <<inputVars, taskVars, mgrVars, pptVars>>

(* --------------------------- validity check --------------------------- *)
\* lines 162-170, the body of the try: the two early returns, then Image.open
\* and verify, which raise for a file that does not decode or cannot be read
CheckBody(f) ==
  IF ~f.exists THEN "False"
  ELSE IF f.size < MinImageBytes THEN "False"
  ELSE IF f.image THEN "True"
  ELSE "raise"

\* faulty variant: the exception of the body leaves the check
CheckOutcome_uncaught(f) == CheckBody(f)

\* lines 161-172: `except Exception: return False` around the body
CheckOutcome(f) == IF CheckBody(f) = "raise" THEN "False" ELSE CheckBody(f)

\* _is_valid_image(path) as a truth value; it reads the file on every call
_is_valid_image(f) == CheckOutcome(f) = "True"

(* ----------------------------- results -------------------------------- *)
NoResult == [state |-> "none", skipped |-> FALSE, error |-> ""]
\* the call fell off the end of download_image (the retry loop ran no iteration)
ReturnedNone == [state |-> "None", skipped |-> FALSE, error |-> ""]
\* the task ended with an exception, which gather hands back as its result
Raised(err) == [state |-> "raised", skipped |-> FALSE, error |-> err]
Success(skipped) == [state |-> "ok", skipped |-> skipped, error |-> ""]
Failure(err) == [state |-> "fail", skipped |-> FALSE, error |-> err]

\* outcomes of one attempt of the retry loop
\* "reject": status, content type or size refused (lines 75-85); "decode": the
\* payload is no image; "tempio"/"saveio": writing <index>_temp / <index>.jpg fails
FailKinds == {"reject", "decode", "tempio", "saveio"}
Fates == FailKinds \cup {"ok"}

\* what the source and the local disk may do to the next attempt of slide i
\* ("locked": the payload is good, removing <index>_temp afterwards raises)
AllowedFates(i) ==
  IF plan[i] = Free THEN Fates
  ELSE IF plan[i] = Locked THEN {"locked"}
  ELSE IF plan[i] = Always \/ fails[i] < plan[i].k THEN FailKinds
  ELSE {"ok"}

(* ------------------- download_image: one task per slide ---------------- *)
\* a caller creates the coroutine download_image(session, slide, img_path) for
\* every slide of D; the history variables snapshot the call's pre-state
Launch(D) ==
  /\ pc' = [j \in Slides |-> IF j \in D THEN "queued" ELSE pc[j]]
  /\ attempt' = [j \in Slides |-> IF j \in D THEN 0 ELSE attempt[j]]
  /\ prev' = [j \in Slides |-> IF j \in D THEN res[j] ELSE prev[j]]
  /\ prevModified' = [j \in Slides |-> IF j \in D THEN modified[j] ELSE prevModified[j]]
  /\ res' = [j \in Slides |-> IF j \in D THEN NoResult ELSE res[j]]
  /\ netCalls' = [j \in Slides |-> IF j \in D THEN 0 ELSE netCalls[j]]
  /\ calls' = [j \in Slides |-> IF j \in D THEN calls[j] + 1 ELSE calls[j]]
  /\ preFinal' = [j \in Slides |-> IF j \in D THEN final[j] ELSE preFinal[j]]
  /\ preTemp' = [j \in Slides |-> IF j \in D THEN temp[j] ELSE preTemp[j]]
  /\ UNCHANGED <<final, temp, semaphore, fate, fails, modified>>

\* faulty variant: the semaphore admits a task whatever its value
SemaphoreFree_unbounded == TRUE

\* line 56: `async with self.semaphore` enters only while the value is positive
SemaphoreFree == semaphore > 0

\* faulty variants: the fast path is never taken; it is taken whatever the flag
ShouldSkip_never(i) == FALSE
ShouldSkip_unconditional(i) == _is_valid_image(final[i])

\* line 66: the skip-existing fast path
ShouldSkip(i) == skip_existing /\ _is_valid_image(final[i])

\* faulty variants: a cleanup that leaves the file where it is
FinalAfterCleanup_kept(f) == f
TempAfterSuccess_kept(t) == t

\* lines 107-109: the cleanup after the last failed attempt removes both paths
FinalAfterCleanup(f) == Absent
TempAfterCleanup(t) == Absent

\* lines 95-96: the temporary file is removed after a successful attempt
TempAfterSuccess(t) == Absent

\* `return r` out of download_image
Return(i, r) ==
  /\ res' = [res EXCEPT ![i] = r]
  /\ pc' = [pc EXCEPT ![i] = "done"]
  /\ attempt' = [attempt EXCEPT ![i] = 0]
  /\ modified' = [modified EXCEPT ![i] = FALSE]

\* an exception leaves download_image (nothing in the coroutine catches it)
Raise(i, err) ==
  /\ res' = [res EXCEPT ![i] = Raised(err)]
  /\ pc' = [pc EXCEPT ![i] = "raised"]
  /\ attempt' = [attempt EXCEPT ![i] = 0]
  /\ modified' = [modified EXCEPT ![i] = FALSE]

\* line 57: slide.get("cover", "")
slide_get_cover(i) == IF cover[i] = KeyAbsent THEN "" ELSE cover[i]

\* faulty variant: the URL is never found empty
UrlEmpty_ignored(i) == FALSE

\* line 58: `if not url`
UrlEmpty(i) == slide_get_cover(i) = ""

\* lines 174-184: _safe_callback invokes progress_callback once, awaiting it when
\* it is a coroutine function, and swallows whatever it raises
Notify(i) == cb' = [cb EXCEPT ![i] = @ + 1]

\* lines 108-109: os.remove raises for a path that exists and cannot be removed
CleanupRaises(i, t, f) == plan[i] = Locked /\ (t.exists \/ f.exists)

\* lines 56-74: enter the semaphore, then run to the first suspension point
Acquire(i) ==
  /\ pc[i] = "queued"
  /\ SemaphoreFree
  /\ IF UrlEmpty(i)
       THEN /\ Return(i, Failure("empty url"))
            /\ UNCHANGED <<final, temp, semaphore, fate, fails, netCalls, cb>>
       ELSE IF skip_existing /\ CheckOutcome(final[i]) = "raise"
         THEN \* line 66 is outside the try of the retry loop
              /\ Raise(i, "check")
              /\ UNCHANGED <<final, temp, semaphore, fate, fails, netCalls, cb>>
       ELSE IF ShouldSkip(i)
         THEN /\ Notify(i)
              /\ Return(i, Success(TRUE))
              /\ UNCHANGED <<final, temp, semaphore, fate, fails, netCalls>>
         ELSE IF max_retries <= 0
           THEN \* range(self.max_retries) is empty: the function ends without a return
                /\ Return(i, ReturnedNone)
                /\ UNCHANGED <<final, temp, semaphore, fate, fails, netCalls, cb>>
           ELSE /\ semaphore' = semaphore - 1
                /\ attempt' = [attempt EXCEPT ![i] = 0]
                /\ pc' = [pc EXCEPT ![i] = "net"]
                /\ netCalls' = [netCalls EXCEPT ![i] = @ + 1]
                /\ UNCHANGED <<final, temp, fate, fails, res, modified, cb>>
  /\ UNCHANGED <<calls, preFinal, preTemp, prev, prevModified>>

\* faulty variant: the loop grants one attempt more
LastAttempt_late(i) == attempt[i] = max_retries

\* lines 71 and 105: the attempt is the last one of range(self.max_retries)
LastAttempt(i) == attempt[i] = max_retries - 1

\* lines 104-117: the except branch, entered with the files as the failing
\* statement left them (t at the temporary path, f at the final path)
AttemptFailed(i, err, t, f) ==
  /\ fails' = [fails EXCEPT ![i] = IF plan[i] = Free THEN @ ELSE @ + 1]
  /\ fate' = [fate EXCEPT ![i] = "ok"]
  /\ IF LastAttempt(i)
       THEN IF CleanupRaises(i, t, f)
              THEN \* os.remove raises inside the except branch
                   /\ temp' = [temp EXCEPT ![i] = t]
                   /\ final' = [final EXCEPT ![i] = f]
                   /\ Raise(i, "remove")
                   /\ semaphore' = semaphore + 1
                   /\ UNCHANGED cb
              ELSE /\ temp' = [temp EXCEPT ![i] = TempAfterCleanup(t)]
                   /\ final' = [final EXCEPT ![i] = FinalAfterCleanup(f)]
                   /\ Notify(i)
                   /\ Return(i, Failure(err))
                   /\ semaphore' = semaphore + 1
       ELSE /\ temp' = [temp EXCEPT ![i] = t]
            /\ final' = [final EXCEPT ![i] = f]
            /\ pc' = [pc EXCEPT ![i] = "sleep"]
            /\ UNCHANGED <<res, modified, semaphore, attempt, cb>>

\* lines 74-85: the response arrives; status, content type and size are checked
Response(i) ==
  /\ pc[i] = "net"
  /\ \E k \in AllowedFates(i) :
       IF k = "reject"
         THEN AttemptFailed(i, k, temp[i], final[i])
         ELSE /\ fate' = [fate EXCEPT ![i] = k]
              /\ pc' = [pc EXCEPT ![i] = "write"]
              /\ UNCHANGED <<final, temp, semaphore, res, fails, modified, attempt, cb>>
  /\ UNCHANGED <<netCalls, calls, preFinal, preTemp, prev, prevModified>>

\* lines 88-89: the payload is written to <index>_temp
WriteTemp(i) ==
  /\ pc[i] = "write"
  /\ IF fate[i] = "tempio"
       THEN AttemptFailed(i, "tempio", Partial, final[i])
       ELSE /\ temp' = [temp EXCEPT ![i] = IF fate[i] = "decode" THEN RawBad ELSE RawGood]
            /\ pc' = [pc EXCEPT ![i] = "process"]
            /\ UNCHANGED <<final, semaphore, res, fails, modified, attempt, fate, cb>>
  /\ UNCHANGED <<netCalls, calls, preFinal, preTemp, prev, prevModified>>

\* lines 126-147: _sync_process_image verifies the temporary file, then
\* img.save opens the final path for writing
Process(i) ==
  /\ pc[i] = "process"
  /\ IF ~temp[i].image
       THEN AttemptFailed(i, "decode", temp[i], final[i])
       ELSE /\ final' = [final EXCEPT ![i] = Partial]
            /\ pc' = [pc EXCEPT ![i] = "save"]
            /\ UNCHANGED <<temp, semaphore, res, fails, modified, attempt, fate, cb>>
  /\ UNCHANGED <<netCalls, calls, preFinal, preTemp, prev, prevModified>>

\* lines 147, 95-102: img.save completes (or fails part-way); on success the
\* temporary file is removed and the call returns
Save(i) ==
  /\ pc[i] = "save"
  /\ IF fate[i] = "saveio"
       THEN AttemptFailed(i, "saveio", temp[i], Partial)
       ELSE IF fate[i] = "locked"
         THEN \* the final file is written, then os.remove(temp) raises (line 96)
              AttemptFailed(i, "remove", temp[i], Jpeg)
         ELSE
            /\ final' = [final EXCEPT ![i] = Jpeg]
            /\ temp' = [temp EXCEPT ![i] = TempAfterSuccess(temp[i])]
            /\ Notify(i)
            /\ Return(i, Success(FALSE))
            /\ fate' = [fate EXCEPT ![i] = "ok"]
            /\ semaphore' = semaphore + 1
            /\ UNCHANGED fails
  /\ UNCHANGED <<netCalls, calls, preFinal, preTemp, prev, prevModified>>

\* line 117 and the loop head: the backoff sleep ends, the next attempt's request starts
Wake(i) ==
  /\ pc[i] = "sleep"
  /\ attempt' = [attempt EXCEPT ![i] = @ + 1]
  /\ pc' = [pc EXCEPT ![i] = "net"]
  /\ netCalls' = [netCalls EXCEPT ![i] = @ + 1]
  /\ UNCHANGED <<final, temp, semaphore, fate, res, fails, calls, preFinal, preTemp,
                 prev, modified, prevModified, cb>>

\* a step of the download_image task of slide i
TaskStep(i) ==
  \/ Acquire(i)
  \/ Response(i)
  \/ WriteTemp(i)
  \/ Process(i)
  \/ Save(i)
  \/ Wake(i)

(* ------------------------- SpecFetch: direct calls -------------------- *)
\* a caller invokes download_image for slide i and awaits it; a behaviour follows
\* the successive calls for one slide (calls for distinct slides share no file)
CallDownloadImage(i) ==
  /\ pc[i] \in {"none", "done"}
  /\ \A j \in Slides \ {i} : calls[j] = 0 /\ ~modified[j]
  /\ calls[i] < MaxCalls
  /\ Launch({i})
  /\ cb' = [cb EXCEPT ![i] = 0]
  /\ UNCHANGED <<inputVars, mgrVars>>

\* something other than the pipeline rewrites or removes <index>.jpg between calls
ExternalChange(i) ==
  /\ pc[i] \in {"none", "done"}
  /\ \A j \in Slides \ {i} : calls[j] = 0 /\ ~modified[j]
  /\ ~modified[i]
  /\ calls[i] < MaxCalls
  /\ \E c \in CacheStates \ {final[i]} : final' = [final EXCEPT ![i] = c]
  /\ modified' = [modified EXCEPT ![i] = TRUE]
  /\ UNCHANGED <<temp, semaphore, pc, attempt, fate, res, fails, netCalls, calls,
                 preFinal, preTemp, prev, prevModified, cb, inputVars, mgrVars>>

FetchStep(i) ==
  /\ TaskStep(i)
  /\ UNCHANGED <<inputVars, mgrVars>>

InitTasks ==
  /\ temp = [i \in Slides |-> Absent]
  /\ semaphore = MaxConcurrent
  /\ pc = [i \in Slides |-> "none"]
  /\ attempt = [i \in Slides |-> 0]
  /\ fate = [i \in Slides |-> "ok"]
  /\ res = [i \in Slides |-> NoResult]
  /\ fails = [i \in Slides |-> 0]
  /\ netCalls = [i \in Slides |-> 0]
  /\ calls = [i \in Slides |-> 0]
  /\ preFinal = [i \in Slides |-> Absent]
  /\ preTemp = [i \in Slides |-> Absent]
  /\ prev = [i \in Slides |-> NoResult]
  /\ modified = [i \in Slides |-> FALSE]
  /\ prevModified = [i \in Slides |-> FALSE]
  /\ cb = [i \in Slides |-> 0]

\* documents: name 0 is <title>.pdf, name t > 0 is <title><timeinfo t>.pdf
OwnDocNames == 0..MaxClock
\* the document of another presentation of the same lesson, <other title>.pdf
OtherTitleDoc == MaxClock + 1
\* the .pdf names of the lesson download directory
DocNames == OwnDocNames \cup {OtherTitleDoc}
NoDoc == [exists |-> FALSE, keywords |-> <<>>, pages |-> <<>>]

\* collections 1 and 2
Collections == 1..2

\* threads that each construct and start one PPTManager
NumThreads == 2
Threads == 1..NumThreads

\* no collection is being processed
PathsIdle ==
  /\ coll = [c \in Collections |-> [lesson |-> <<>>, title |-> <<>>]]
  /\ cachefs = {}

\* no PPTManager has been constructed
TitlesIdle ==
  /\ title_dict = {}
  /\ inst = [t \in Threads |-> [title |-> "", pc |-> "none"]]

\* a cache file as json.load sees it: the top-level keys of the object
NoFile == [exists |-> FALSE, metadata |-> FALSE, answers |-> <<>>, manual_answers |-> <<>>]
\* the value None, and a returned dict
None == [none |-> TRUE, dict |-> <<>>]
Dict(d) == [none |-> FALSE, dict |-> d]
NotCalled == [called |-> FALSE]

\* the answer cache has not been used
AnswersIdle ==
  /\ cacheFile = NoFile
  /\ lastSave = NotCalled
  /\ loaded = NotCalled
  /\ merge = NotCalled

\* start() has not been called
NoStart == [pc |-> "none", faults |-> 0]
StartIdle == startRun = NoStart

InitAuxIdle ==
  /\ PathsIdle
  /\ TitlesIdle
  /\ AnswersIdle
  /\ StartIdle

InitPPTIdle ==
  /\ InitAuxIdle
  /\ problem = [i \in Slides |-> FALSE]
  /\ fontOK = TRUE
  /\ manager = FALSE
  /\ md5_list = <<>>
  /\ timeinfo = 0
  /\ clock = 1
  /\ rootPdf = NoDoc
  /\ docs = [n \in DocNames |-> NoDoc]
  /\ runsLog = <<>>

\* no download_slides call yet
NoBatch ==
  [slides |-> <<>>, to_download |-> <<>>, skipped |-> 0, total |-> 0,
   valid_at_start |-> {}, requested |-> {}, returned |-> FALSE,
   successful |-> 0, failed |-> 0, success_list |-> <<>>, failed_list |-> <<>>]

\* no download_presentation call yet
NoPresentation ==
  [calls |-> 0, allValid |-> FALSE, finalAtStart |-> [i \in Slides |-> Absent],
   requested |-> {}, prevFull |-> FALSE, sent |-> [i \in Slides |-> 0]]

InitManagerIdle ==
  /\ mpc = "idle"
  /\ pres = NoPresentation
  /\ round = 0
  /\ remaining = <<>>
  /\ all_successful = <<>>
  /\ batch = NoBatch
  /\ report = [total |-> 0, successful |-> 0, failed |-> 0]
  /\ dispatched = [i \in Slides |-> 0]

InitFetch ==
  /\ InitPPTIdle
  /\ cover \in [Slides -> {KeyAbsent, "", "u"}]
  /\ max_retries = DownloaderMaxRetries
  /\ skip_existing \in BOOLEAN
  /\ plan = [i \in Slides |-> Free]
  /\ final = [i \in Slides |-> Absent]
  /\ InitTasks
  /\ InitManagerIdle

NextFetch ==
  \E i \in Slides :
    \/ CallDownloadImage(i) /\ UNCHANGED pptVars
    \/ FetchStep(i) /\ UNCHANGED pptVars
    \/ ExternalChange(i) /\ UNCHANGED pptVars

SpecFetch == InitFetch /\ [][NextFetch]_vars

\* another writer of the same cache directory (a second run for the collection,
\* or PPTManager.download) stores a valid <index>.jpg during the backoff sleep
ConcurrentWrite(i) ==
  /\ pc[i] = "sleep"
  /\ final[i] # Jpeg
  /\ final' = [final EXCEPT ![i] = Jpeg]
  /\ UNCHANGED <<temp, semaphore, pc, attempt, fate, res, fails, netCalls, calls,
                 preFinal, preTemp, prev, modified, prevModified, cb, inputVars, mgrVars>>

NextFetchShared ==
  \/ NextFetch
  \/ \E i \in Slides : ConcurrentWrite(i) /\ UNCHANGED pptVars

\* direct calls of download_image on a cache directory that has a second writer
SpecFetchShared == InitFetch /\ [][NextFetchShared]_vars

(* -------------- download_slides and download_with_retry --------------- *)
\* the collection handed to download_with_retry, in collection order
AllSlides == [i \in Slides |-> i]

SeqToSet(q) == {q[n] : n \in 1..Len(q)}

\* faulty variant: the pre-filter keeps every slide for download
NeedsDownload_all(i) == TRUE

\* line 207: a slide is kept for download unless its final file is valid
NeedsDownload(i) == ~_is_valid_image(final[i])

\* lines 202-218: the skip-existing pre-filter of download_slides
SlidesToDownload(batchSlides) ==
  IF skip_existing THEN SelectSeq(batchSlides, NeedsDownload) ELSE batchSlides

SkippedCount(batchSlides) ==
  IF skip_existing THEN Len(batchSlides) - Len(SlidesToDownload(batchSlides)) ELSE 0

IsSuccess(i) == res[i].state = "ok"
IsFailure(i) == res[i].state = "fail"
NotSuccess(i) == res[i].state # "ok"

\* lines 249-255: what download_slides appends to `failed` for the result of
\* slide i's task: the result dict, or {"error": str(result)} for an exception
FailedItem(i) ==
  IF res[i].state = "raised"
    THEN [error |-> res[i].error]
    ELSE [slide |-> i, error |-> res[i].error]

FailedList(to_download) ==
  LET F == SelectSeq(to_download, NotSuccess)
  IN [n \in 1..Len(F) |-> FailedItem(F[n])]

\* lines 369-370: [item["slide"] for item in result["failed_list"] if "slide" in item]
HasSlideKey(item) == "slide" \in DOMAIN item
RetrySlides(failed_list) ==
  LET withSlide == SelectSeq(failed_list, HasSlideKey)
  IN [n \in 1..Len(withSlide) |-> withSlide[n].slide]

\* faulty variants: no retry round at all; one retry round too few
RetryWanted_never(failed_list, rnd) == FALSE
RetryWanted_short(failed_list, rnd) == failed_list # <<>> /\ rnd < ManagerMaxRetries - 2

\* line 368: failed slides are retried while rounds remain
RetryWanted(failed_list, rnd) == failed_list # <<>> /\ rnd < ManagerMaxRetries - 1

\* lines 375-380: the report download_with_retry returns
FinalReport(succ) ==
  [total |-> Len(AllSlides), successful |-> Len(succ), failed |-> Len(AllSlides) - Len(succ)]

Finish(succ) ==
  /\ mpc' = "done"
  /\ report' = FinalReport(succ)
  /\ all_successful' = succ
  /\ remaining' = <<>>
  /\ UNCHANGED dispatched

\* lines 199-218: download_slides(batchSlides) starts; the pre-filter has run
StartedBatch(batchSlides) ==
  [NoBatch EXCEPT !.slides = batchSlides,
                  !.to_download = SlidesToDownload(batchSlides),
                  !.skipped = SkippedCount(batchSlides),
                  !.total = Len(batchSlides),
                  !.valid_at_start = {i \in SeqToSet(batchSlides) : _is_valid_image(final[i])}]

\* lines 220-229: the report when the pre-filter left nothing to download
EarlyReport(b) ==
  [b EXCEPT !.returned = TRUE, !.successful = b.total, !.failed = 0]

\* faulty variant: skipped slides are left out of `successful`
GatherReport_unskipped(b) ==
  [b EXCEPT !.returned = TRUE,
            !.successful = Len(SelectSeq(b.to_download, IsSuccess)),
            !.failed = Len(FailedList(b.to_download)),
            !.success_list = SelectSeq(b.to_download, IsSuccess),
            !.failed_list = FailedList(b.to_download)]

\* lines 245-267: the report built from the results gather returned
GatherReport(b) ==
  [b EXCEPT !.returned = TRUE,
            !.successful = Len(SelectSeq(b.to_download, IsSuccess)) + b.skipped,
            !.failed = Len(FailedList(b.to_download)),
            !.success_list = SelectSeq(b.to_download, IsSuccess),
            !.failed_list = FailedList(b.to_download)]

\* lines 202-213: the pre-filter has invoked the callback once for every slide
\* it skipped; the slides to download start the batch without a notification
CallbacksAfterPrefilter(batchSlides) ==
  [i \in Slides |->
     IF i \in SeqToSet(batchSlides)
       THEN (IF i \in SeqToSet(SlidesToDownload(batchSlides)) THEN 0 ELSE 1)
       ELSE cb[i]]

\* lines 356-362 and 199-243: control reaches the head of the retry loop with
\* remaining_slides = rem, all_successful = succ and loop variable rnd, and runs
\* to the next suspension point (the gather of the round's tasks) or to the return
LoopHead(rem, succ, rnd) ==
  IF rnd >= ManagerMaxRetries \/ rem = <<>>
    THEN /\ Finish(succ)
         /\ round' = rnd
         /\ UNCHANGED <<batch, taskVars>>
    ELSE IF SlidesToDownload(rem) = <<>>
      THEN \* download_slides returns at line 221 with two empty lists
           /\ Finish(succ)
           /\ round' = rnd
           /\ batch' = EarlyReport(StartedBatch(rem))
           /\ cb' = CallbacksAfterPrefilter(rem)
           /\ UNCHANGED <<final, temp, semaphore, pc, attempt, fate, res, fails, netCalls,
                          calls, preFinal, preTemp, prev, modified, prevModified>>
      ELSE /\ mpc' = "gather"
           /\ round' = rnd
           /\ remaining' = rem
           /\ all_successful' = succ
           /\ batch' = StartedBatch(rem)
           /\ cb' = CallbacksAfterPrefilter(rem)
           /\ dispatched' = [i \in Slides |->
                               IF i \in SeqToSet(SlidesToDownload(rem))
                                 THEN dispatched[i] + 1 ELSE dispatched[i]]
           /\ Launch(SeqToSet(SlidesToDownload(rem)))
           /\ UNCHANGED report

\* faulty variant: gather without return_exceptions hands on the first exception
\* of a task as soon as it is raised
GatherRaises_first(tasks) == \E i \in SeqToSet(tasks) : pc[i] = "raised"

\* line 243: with return_exceptions=True an exception of a task is a result like
\* any other, gather itself raises nothing
GatherRaises(tasks) == FALSE

\* line 243: `await asyncio.gather(...)` resumes when every task has ended
GatherReady(tasks) ==
  \/ \A i \in SeqToSet(tasks) : pc[i] \in {"done", "raised"}
  \/ GatherRaises(tasks)

\* line 353: download_with_retry(slides, img_path) is called
StartRun ==
  /\ mpc = "idle"
  /\ LoopHead(AllSlides, <<>>, 0)
  /\ UNCHANGED <<inputVars, pres>>

\* a task of the round in progress takes a step
RoundTaskStep(i) ==
  /\ mpc = "gather"
  /\ TaskStep(i)
  /\ batch' = [batch EXCEPT !.requested =
                  IF netCalls'[i] > netCalls[i] THEN @ \cup {i} ELSE @]
  /\ pres' = [pres EXCEPT !.requested =
                 IF netCalls'[i] > netCalls[i] THEN @ \cup {i} ELSE @,
                           !.sent[i] =
                 IF netCalls'[i] > netCalls[i] THEN @ + 1 ELSE @]
  /\ UNCHANGED <<inputVars, mpc, round, remaining, all_successful, report, dispatched>>

\* lines 243-267 and 365-373: gather returns when every task has ended,
\* download_slides sorts the results into success_list and failed_list,
\* download_with_retry collects the successes and either schedules the failed
\* slides for the next round or leaves the loop
RoundEnd ==
  /\ mpc = "gather"
  /\ GatherReady(batch.to_download)
  /\ IF \/ GatherRaises(batch.to_download)
        \/ \E i \in SeqToSet(batch.to_download) : res[i] = ReturnedNone
       THEN \* line 252: result.get on None raises AttributeError, which leaves
            \* download_slides and download_with_retry
            /\ mpc' = "raised"
            /\ UNCHANGED <<round, remaining, all_successful, batch, report, dispatched>>
       ELSE LET b == GatherReport(batch)
            IN /\ batch' = b
               /\ IF RetryWanted(b.failed_list, round)
                    THEN /\ mpc' = "backoff"
                         /\ remaining' = RetrySlides(b.failed_list)
                         /\ all_successful' = all_successful \o b.success_list
                         /\ UNCHANGED <<round, report, dispatched>>
                    ELSE /\ Finish(all_successful \o b.success_list)
                         /\ round' = round + 1
  /\ UNCHANGED <<inputVars, taskVars, pres>>

\* line 371: the backoff sleep ends and the next iteration starts
BackoffDone ==
  /\ mpc = "backoff"
  /\ LoopHead(remaining, all_successful, round + 1)
  /\ UNCHANGED <<inputVars, pres>>

\* AsyncPPTDownloadManager.validate_image: exists, size >= 10, PIL verify
\* succeeds; never raises
validate_image(f) == f.exists /\ f.size >= MinImageBytes /\ f.image

IsExisting(i) == validate_image(final[i])

\* faulty variant: no cached file is ever counted
ExistingCount_none(slides) == Len(SelectSeq(slides, ShouldSkip_never))

\* lines 325-326: existing_count
ExistingCount(slides) == Len(SelectSeq(slides, IsExisting))

\* lines 327-334: the report of the all-cached early return
AllCachedReport(slides) ==
  [total |-> Len(slides), successful |-> Len(slides), failed |-> 0,
   skipped |-> ExistingCount(slides)]

\* lines 295-338: download_presentation(data, lessonname) is called for the
\* collection (the call before it, if any, has returned) and runs to its first
\* suspension point or to its return
download_presentation ==
  /\ mpc \in {"idle", "done"}
  /\ pres.calls < MaxPresentations
  /\ pres' = [calls |-> pres.calls + 1,
              allValid |-> \A i \in Slides : _is_valid_image(final[i]),
              finalAtStart |-> final,
              requested |-> {},
              prevFull |-> (mpc = "done" /\ report.failed = 0
                            /\ report.successful = report.total),
              sent |-> [i \in Slides |-> 0]]
  /\ IF skip_existing /\ ExistingCount(AllSlides) = Len(AllSlides)
       THEN /\ mpc' = "done"
            /\ report' = AllCachedReport(AllSlides)
            /\ UNCHANGED <<round, remaining, all_successful, batch, dispatched, taskVars>>
       ELSE LoopHead(AllSlides, <<>>, 0)
  /\ UNCHANGED inputVars

\* SpecPresentation: successive download_presentation calls for one collection
PresentationPlanValues == {Planned(0), Always}

InitPresentation ==
  /\ InitPPTIdle
  /\ cover \in [Slides -> {"", "u"}]
  /\ max_retries = DownloaderMaxRetries
  /\ skip_existing \in BOOLEAN
  /\ plan \in [Slides -> PresentationPlanValues]
  /\ \A i \in Slides : cover[i] = "" => plan[i] = Planned(0)
  /\ final \in [Slides -> {Absent, Jpeg, Corrupt}]
  /\ InitTasks
  /\ InitManagerIdle

NextPresentation ==
  \/ download_presentation /\ UNCHANGED pptVars
  \/ \E i \in Slides : RoundTaskStep(i) /\ UNCHANGED pptVars
  \/ RoundEnd /\ UNCHANGED pptVars
  \/ BackoffDone /\ UNCHANGED pptVars

SpecPresentation == InitPresentation /\ [][NextPresentation]_vars

PlanValues == {Planned(k) : k \in 0..MaxPlan} \cup {Always}

InitRetry ==
  /\ InitPPTIdle
  /\ cover \in [Slides -> {"", "u"}]
  /\ max_retries = DownloaderMaxRetries
  /\ skip_existing \in BOOLEAN
  /\ plan \in [Slides -> PlanValues]
  /\ \A i \in Slides : cover[i] = "" => plan[i] = Planned(0)
  /\ final \in [Slides -> {Absent, Jpeg, Corrupt}]
  /\ InitTasks
  /\ InitManagerIdle

NextRetry ==
  \/ StartRun /\ UNCHANGED pptVars
  \/ \E i \in Slides : RoundTaskStep(i) /\ UNCHANGED pptVars
  \/ RoundEnd /\ UNCHANGED pptVars
  \/ BackoffDone /\ UNCHANGED pptVars

SpecRetry == InitRetry /\ [][NextRetry]_vars

\* something other than the run (delete_cache, another program, the user)
\* removes the valid <index>.jpg of slide i while the run waits in its backoff
CacheLoss(i) ==
  /\ mpc = "backoff"
  /\ _is_valid_image(final[i])
  /\ final' = [final EXCEPT ![i] = Absent]
  /\ UNCHANGED <<temp, semaphore, pc, attempt, fate, res, fails, netCalls, calls,
                 preFinal, preTemp, prev, modified, prevModified, cb, inputVars, mgrVars>>

SharedPlanValues == {Planned(0), Planned(DownloaderMaxRetries), Always}

InitRetryShared ==
  /\ InitPPTIdle
  /\ cover = [i \in Slides |-> "u"]
  /\ max_retries = DownloaderMaxRetries
  /\ skip_existing = TRUE
  /\ plan \in [Slides -> SharedPlanValues]
  /\ final \in [Slides -> {Absent, Jpeg}]
  /\ InitTasks
  /\ InitManagerIdle

NextRetryShared ==
  \/ NextRetry
  \/ \E i \in Slides : CacheLoss(i) /\ UNCHANGED pptVars

\* one run of download_with_retry on a cache directory that loses files
SpecRetryShared == InitRetryShared /\ [][NextRetryShared]_vars

\* SpecBatch: the same run on a machine where removing a slide's files may raise
\* and with a downloader constructed with any retry budget
BatchPlanValues == {Planned(0), Always, Locked}
BatchBudgets == {0, 1, DownloaderMaxRetries}

InitBatch ==
  /\ InitPPTIdle
  /\ cover \in [Slides -> {"", "u"}]
  /\ max_retries \in BatchBudgets
  /\ skip_existing \in BOOLEAN
  /\ plan \in [Slides -> BatchPlanValues]
  /\ \A i \in Slides : cover[i] = "" => plan[i] = Planned(0)
  /\ final \in [Slides -> {Absent, Jpeg, Corrupt}]
  /\ InitTasks
  /\ InitManagerIdle

SpecBatch == InitBatch /\ [][NextRetry]_vars
FairSpecBatch == SpecBatch /\ WF_vars(NextRetry)

\* the event loop runs every ready task and every request ends (timeout),
\* so some enabled step is always eventually taken
FairSpecRetry == SpecRetry /\ WF_vars(NextRetry)

(* ---------------------- PPTManager.generate_ppt ----------------------- *)
\* the cached image of slide i as a finished download left it
SlideImage(i) == [exists |-> TRUE, size |-> 20, image |-> TRUE, data |-> 10 * i]

\* lines 243-252: the answer text is drawn onto the image and the file is saved
\* in place, which changes its bytes
Annotate(f) == [f EXCEPT !.data = @ + 1]

\* get_md5 / get_sha256: digests are taken as injective on what they read
get_md5(f) == [md5 |-> <<f.size, f.data>>]
get_sha256(lines) == [sha256 |-> lines]

\* lines 229-235: the slides whose image file exists, in collection order
HasImage(i) == final[i].exists
PresentSlides == SelectSeq(AllSlides, HasImage)

\* lines 238-239: the digests generate_ppt appends to md5_list, in slide order
NewDigests == [n \in 1..Len(PresentSlides) |-> get_md5(final[PresentSlides[n]])]

\* lines 240-255: the overlay is drawn when the slide has a problem, the image
\* opens and the font loads; a fault in any of them leaves the file as it was
AnnotationApplies(i) == final[i].exists /\ problem[i] /\ final[i].image /\ fontOK

\* lines 261-263: <downloadpath>/<title>.pdf, if there, replaces <lesson>/<title>.pdf
DocsAfterMove ==
  IF rootPdf.exists THEN [docs EXCEPT ![0] = rootPdf] ELSE docs

\* lines 291-292: the name of a new document
NewDocName(d) == IF d[0].exists THEN timeinfo ELSE 0

\* lines 285-290: add_page comes before ppt.image; when the image does not
\* decode, ppt.image raises, the loop continues and the page stays blank
PageOf(i) == [slide |-> i, blank |-> ~final[i].image]

\* faulty variant: ppt.output writes nothing
NewDoc_unwritten(hash) == [exists |-> FALSE, keywords |-> <<>>, pages |-> <<>>]

\* lines 274-293: one page per slide whose image file exists, in collection order
NewDoc(hash) ==
  [exists |-> TRUE, keywords |-> hash,
   pages |-> [n \in 1..Len(PresentSlides) |-> PageOf(PresentSlides[n])]]

\* PPTManager.__init__: a new instance for the same collection
NewManager ==
  /\ Len(runsLog) < MaxRuns
  /\ manager' = TRUE
  /\ md5_list' = <<>>
  /\ timeinfo' = clock
  /\ UNCHANGED <<problem, fontOK, clock, rootPdf, docs, runsLog>>
  /\ UNCHANGED <<inputVars, taskVars, mgrVars, auxVars>>

\* a second passes
Tick ==
  /\ clock < MaxClock
  /\ clock' = clock + 1
  /\ UNCHANGED <<problem, fontOK, manager, md5_list, timeinfo, rootPdf, docs, runsLog>>
  /\ UNCHANGED <<inputVars, taskVars, mgrVars, auxVars>>

\* lines 227-294: generate_ppt, a synchronous call
generate_ppt ==
  /\ manager
  /\ Len(runsLog) < MaxRuns
  /\ LET list == md5_list \o NewDigests
         hash == get_sha256(list)
         moved == DocsAfterMove
         matching == {n \in DocNames : moved[n].exists /\ moved[n].keywords = hash}
         rec(ret, made) == [hash |-> hash, ret |-> ret, created |-> made,
                            fresh |-> (md5_list = <<>>), docsBefore |-> docs,
                            moved |-> rootPdf.exists, digested |-> PresentSlides,
                            seen |-> NewDigests,
                            annotated |-> {i \in Slides : AnnotationApplies(i)}]
     IN /\ md5_list' = list
        /\ final' = [i \in Slides |->
                       IF AnnotationApplies(i) THEN Annotate(final[i]) ELSE final[i]]
        /\ rootPdf' = NoDoc
        /\ IF matching # {}
             THEN \E n \in matching :
                    /\ docs' = moved
                    /\ runsLog' = Append(runsLog, rec(n, FALSE))
             ELSE /\ docs' = [moved EXCEPT ![NewDocName(moved)] = NewDoc(hash)]
                  /\ runsLog' = Append(runsLog, rec(NewDocName(moved), TRUE))
  /\ UNCHANGED <<problem, fontOK, manager, timeinfo, clock, auxVars>>
  /\ UNCHANGED <<inputVars, mgrVars, temp, semaphore, pc, attempt, fate, res, fails,
                 netCalls, calls, preFinal, preTemp, prev, modified, prevModified, cb>>

\* a document left by an earlier session: its fingerprint is that of a
\* collection whose only cached file is the Corrupt one
ForeignDoc == [exists |-> TRUE, keywords |-> get_sha256(<<get_md5(Corrupt)>>), pages |-> <<>>]
\* a document whose fingerprint no collection of this model has
UnrelatedDoc == [exists |-> TRUE, keywords |-> get_sha256(<<get_md5(Tiny)>>), pages |-> <<>>]

\* the document of a presentation of which no image was cached when it was
\* assembled: the fingerprint of an empty md5.txt, no page
EmptyDoc == [exists |-> TRUE, keywords |-> get_sha256(<<>>), pages |-> <<>>]

InitPPT ==
  /\ problem \in [Slides -> BOOLEAN]
  /\ fontOK \in BOOLEAN
  /\ manager = FALSE
  /\ md5_list = <<>>
  /\ timeinfo = 0
  /\ clock = 1
  /\ rootPdf \in {NoDoc, ForeignDoc, UnrelatedDoc}
  /\ docs \in [DocNames -> {NoDoc, ForeignDoc, EmptyDoc}]
  /\ docs[0] \in {NoDoc, ForeignDoc}
  /\ docs[OtherTitleDoc] \in {NoDoc, EmptyDoc}
  /\ \A n \in OwnDocNames : n # 0 => docs[n] = NoDoc
  /\ runsLog = <<>>
  /\ InitAuxIdle
  /\ final \in [Slides -> {Absent, Corrupt} \cup {SlideImage(i) : i \in Slides}]
  /\ \A i \in Slides : final[i].image => final[i] = SlideImage(i)
  /\ cover = [i \in Slides |-> "u"]
  /\ max_retries = DownloaderMaxRetries
  /\ skip_existing = TRUE
  /\ plan = [i \in Slides |-> Planned(0)]
  /\ InitTasks
  /\ InitManagerIdle

NextPPT ==
  \/ NewManager
  \/ Tick
  \/ generate_ppt

SpecPPT == InitPPT /\ [][NextPPT]_vars

(* ------------------------ cache directory paths ----------------------- *)
\* names are sequences of characters; the characters the sanitisers treat differently
NameChars == {"a", "_", "/", ":", " "}
Names(len) == UNION {[1..n -> NameChars] : n \in 1..len}

\* PPTManager.validateTitle: each of / \ : * ? " < > | becomes an underscore
validateTitle(title) ==
  [n \in 1..Len(title) |-> IF title[n] \in {"/", ":"} THEN "_" ELSE title[n]]

\* str.replace("/", "_")
ReplaceSlash(name) ==
  [n \in 1..Len(name) |-> IF name[n] = "/" THEN "_" ELSE name[n]]

\* str.strip(): leading and trailing whitespace is removed
RECURSIVE strip(_)
strip(name) ==
  IF name = <<>> THEN <<>>
  ELSE IF Head(name) = " " THEN strip(Tail(name))
  ELSE IF name[Len(name)] = " " THEN strip(SubSeq(name, 1, Len(name) - 1))
  ELSE name

\* a path below downloads\rainclasscache, as its components; an empty
\* component names the directory it is appended to
CachePath(lessonDir, titleDir) ==
  SelectSeq(<<lessonDir, titleDir>>, LAMBDA d : d # <<>>)

\* PPTManager.__init__ lines 22-39: imgpath
PPTManagerImgPath(key) ==
  CachePath(validateTitle(key.lesson), strip(validateTitle(key.title)))

\* download_presentation lines 308-315: img_path
PresentationImgPath(key) ==
  CachePath(strip(ReplaceSlash(key.lesson)), strip(ReplaceSlash(key.title)))

ImgPathOf(via, key) ==
  IF via = "PPTManager" THEN PPTManagerImgPath(key) ELSE PresentationImgPath(key)

\* path p is directory q or lies below it
Under(p, q) == Len(q) <= Len(p) /\ SubSeq(p, 1, Len(q)) = q

\* a pipeline run for collection c writes `file` into its image directory,
\* replacing a file of that name that is there
WriteCacheFile(c, via, file) ==
  LET dir == ImgPathOf(via, coll[c])
  IN cachefs' = {f \in cachefs : ~(f.dir = dir /\ f.file = file)}
                  \cup {[dir |-> dir, file |-> file, by |-> c, via |-> via]}

\* PPTManager(data, lessonname).start(): check_dir creates the directories and
\* generate_ppt writes md5.txt into imgpath (line 256)
RunPPTManager(c) ==
  /\ WriteCacheFile(c, "PPTManager", "md5.txt")
  /\ UNCHANGED coll

\* download_presentation(data, lessonname): makedirs(img_path), then the
\* downloader writes <index>.jpg into img_path
RunDownloadPresentation(c) ==
  /\ WriteCacheFile(c, "download_presentation", "1.jpg")
  /\ UNCHANGED coll

\* bounds of the names explored
MaxLessonLen == 1
MaxTitleLen == 1

\* the fetch pipeline and the document assembly are at rest
PipelineIdle ==
  /\ problem = [i \in Slides |-> FALSE]
  /\ fontOK = TRUE
  /\ manager = FALSE
  /\ md5_list = <<>>
  /\ timeinfo = 0
  /\ clock = 1
  /\ rootPdf = NoDoc
  /\ docs = [n \in DocNames |-> NoDoc]
  /\ runsLog = <<>>
  /\ cover = [i \in Slides |-> "u"]
  /\ max_retries = DownloaderMaxRetries
  /\ skip_existing = TRUE
  /\ plan = [i \in Slides |-> Planned(0)]
  /\ final = [i \in Slides |-> Absent]
  /\ InitTasks
  /\ InitManagerIdle

pipelineVars == <<inputVars, taskVars, mgrVars, docVars>>

InitPaths ==
  /\ coll \in [Collections -> [lesson : Names(MaxLessonLen), title : Names(MaxTitleLen)]]
  /\ cachefs = {}
  /\ TitlesIdle
  /\ AnswersIdle
  /\ StartIdle
  /\ PipelineIdle

NextPaths ==
  \E c \in Collections :
    \/ RunPPTManager(c) /\ UNCHANGED <<pipelineVars, titleVars, answerVars, startVars>>
    \/ RunDownloadPresentation(c) /\ UNCHANGED <<pipelineVars, titleVars, answerVars, startVars>>

SpecPaths == InitPaths /\ [][NextPaths]_vars

(* ----------------------- PPTManager.title_dict ------------------------ *)
\* titles of the presentations the threads work on
TitleNames == {"T1", "T2"}

SetInst(t, title, p) == inst' = [inst EXCEPT ![t] = [title |-> title, pc |-> p]]
Goto(t, p) == inst' = [inst EXCEPT ![t].pc = p]

\* __init__ line 25: `if self.title not in self.title_dict`
ConstructCheck(t) ==
  /\ inst[t].pc = "none"
  /\ \E title \in TitleNames :
       SetInst(t, title, IF title \notin title_dict THEN "init_set" ELSE "ready")
  /\ UNCHANGED title_dict

\* __init__ line 26: `self.title_dict[self.title] = 1`, then the rest of __init__
ConstructSet(t) ==
  /\ inst[t].pc = "init_set"
  /\ title_dict' = title_dict \cup {inst[t].title}
  /\ Goto(t, "ready")

\* start lines 306-307: without an entry for the title start returns (None, None)
StartCheck(t) ==
  /\ inst[t].pc = "ready"
  /\ Goto(t, IF inst[t].title \in title_dict THEN "running" ELSE "refused")
  /\ UNCHANGED title_dict

\* start lines 308-311: download() and generate_ppt() have finished
RunDone(t) ==
  /\ inst[t].pc = "running"
  /\ Goto(t, "del_check")
  /\ UNCHANGED title_dict

\* start line 313: `if self.title in self.title_dict`
DelCheck(t) ==
  /\ inst[t].pc = "del_check"
  /\ Goto(t, IF inst[t].title \in title_dict THEN "deleting" ELSE "returned")
  /\ UNCHANGED title_dict

\* start line 314: `del self.title_dict[self.title]` (KeyError when the key has
\* gone since the test), then the return of line 315
Delete(t) ==
  /\ inst[t].pc = "deleting"
  /\ Goto(t, IF inst[t].title \in title_dict THEN "returned" ELSE "KeyError")
  /\ title_dict' = title_dict \ {inst[t].title}

InitTitles ==
  /\ TitlesIdle
  /\ PathsIdle
  /\ AnswersIdle
  /\ StartIdle
  /\ PipelineIdle

NextTitles ==
  \E t \in Threads :
    \/ ConstructCheck(t) /\ UNCHANGED <<pipelineVars, pathVars, answerVars, startVars>>
    \/ ConstructSet(t) /\ UNCHANGED <<pipelineVars, pathVars, answerVars, startVars>>
    \/ StartCheck(t) /\ UNCHANGED <<pipelineVars, pathVars, answerVars, startVars>>
    \/ RunDone(t) /\ UNCHANGED <<pipelineVars, pathVars, answerVars, startVars>>
    \/ DelCheck(t) /\ UNCHANGED <<pipelineVars, pathVars, answerVars, startVars>>
    \/ Delete(t) /\ UNCHANGED <<pipelineVars, pathVars, answerVars, startVars>>

SpecTitles == InitTitles /\ [][NextTitles]_vars

(* --------------------- AIAnswerAnalyzer answer cache ------------------ *)
\* dict keys: Python keeps the int 1 and the str "1" apart
IntKey(n) == [type |-> "int", v |-> n]
StrKey(n) == [type |-> "str", v |-> n]
\* str(key)
str(k) == StrKey(k.v)

AnswerKeys == {IntKey(n) : n \in Slides} \cup {StrKey(n) : n \in Slides}
\* an answer is a list of option numbers
AnswerValues == {<<>>, <<1>>}
\* the dicts handed to save_cached_answers (no two keys with the same text)
AnswerDicts ==
  UNION {[K -> AnswerValues] :
           K \in {S \in SUBSET AnswerKeys : \A a, b \in S : a # b => a.v # b.v}}

\* json.dump writes every key of an object as a string; lists of ints are kept
json_dump(d) ==
  LET K == {str(k) : k \in DOMAIN d}
  IN [s \in K |-> d[CHOOSE k \in DOMAIN d : str(k) = s]]
\* json.load returns the object with its string keys
json_load(o) == o

\* load lines 106-108: a manual answer in the list format counts when non-empty
ManualApplies(manual_data) == Len(manual_data) > 0

\* load lines 98-110: the AI answers, overridden by the manual answers that count
Combined(ai_answers, manual_answers) ==
  LET over == {k \in DOMAIN manual_answers : ManualApplies(manual_answers[k])}
  IN [k \in DOMAIN ai_answers \cup over |->
        IF k \in over THEN manual_answers[k] ELSE ai_answers[k]]

\* load_cached_answers lines 83-114 as a function of the file
LoadResult(file) ==
  IF ~file.exists THEN None
  ELSE IF ~file.metadata THEN Dict(json_load(file.answers))
  ELSE Dict(Combined(json_load(file.answers), json_load(file.manual_answers)))

load_cached_answers ==
  /\ loaded' = [called |-> TRUE, result |-> LoadResult(cacheFile)]
  /\ UNCHANGED <<cacheFile, lastSave, merge>>

\* faulty variant: a template is written for every slide without an AI answer,
\* also over a manual answer that is there
WithTemplates_overwrite(manual, answers, slides_info, analysis_status) ==
  LET want == IF analysis_status \in {"partial", "failed"}
                THEN {StrKey(i) : i \in slides_info} \ DOMAIN answers
                ELSE {}
  IN [k \in DOMAIN manual \cup want |-> IF k \in want THEN <<>> ELSE manual[k]]

\* save lines 177-205: an empty template for every slide of slides_info whose
\* str(index) is neither a key of answers nor of the manual answers
WithTemplates(manual, answers, slides_info, analysis_status) ==
  LET want == IF analysis_status \in {"partial", "failed"}
                THEN {StrKey(i) : i \in slides_info} \ (DOMAIN answers \cup DOMAIN manual)
                ELSE {}
  IN [k \in DOMAIN manual \cup want |-> IF k \in want THEN <<>> ELSE manual[k]]

\* save_cached_answers lines 116-212
save_cached_answers(answers, slides_info, analysis_status) ==
  LET existing_manual_answers == IF cacheFile.exists THEN json_load(cacheFile.manual_answers)
                                 ELSE <<>>
  IN /\ cacheFile' = [exists |-> TRUE,
                      metadata |-> TRUE,
                      answers |-> json_dump(answers),
                      manual_answers |-> json_dump(WithTemplates(existing_manual_answers,
                                                     answers, slides_info, analysis_status))]
     /\ lastSave' = [called |-> TRUE,
                     answers |-> answers,
                     manualBefore |-> existing_manual_answers]
     /\ loaded' = NotCalled
     /\ merge' = NotCalled

\* the problems of a lesson: the slide index (NoIndex: the key is missing) and
\* the answers the server sent
NoIndex == [type |-> "none", v |-> 0]
Problems == [index : {IntKey(n) : n \in Slides} \cup {NoIndex}, answers : {<<2>>}]
MaxProblems == 2

\* lines 411-415, the test that decides whether a p gets the cached answer
Replaces_any(p, cached_answers) ==
  p.index # NoIndex /\ str(p.index) \in DOMAIN cached_answers

Replaces(p, cached_answers) ==
  /\ p.index # NoIndex
  /\ str(p.index) \in DOMAIN cached_answers
  /\ Len(cached_answers[str(p.index)]) > 0

\* get_cached_answers_for_problems lines 401-418
MergeResult(problems, cached) ==
  IF cached.none \/ DOMAIN cached.dict = {} THEN problems
  ELSE [n \in 1..Len(problems) |->
          IF Replaces(problems[n], cached.dict)
            THEN [problems[n] EXCEPT !.answers = cached.dict[str(problems[n].index)]]
            ELSE problems[n]]

get_cached_answers_for_problems(problems) ==
  /\ merge' = [called |-> TRUE,
               problems |-> problems,
               result |-> MergeResult(problems, LoadResult(cacheFile))]
  /\ UNCHANGED <<cacheFile, lastSave, loaded>>

\* cache files an earlier session or a hand edit may have left
OldFormatFile ==
  [exists |-> TRUE, metadata |-> FALSE,
   answers |-> [k \in {StrKey(1)} |-> <<1>>], manual_answers |-> <<>>]
EditedFile ==
  [exists |-> TRUE, metadata |-> TRUE,
   answers |-> [k \in {StrKey(1)} |-> <<>>], manual_answers |-> [k \in {StrKey(1)} |-> <<1>>]]

InitAnswers ==
  /\ cacheFile \in {NoFile, OldFormatFile, EditedFile}
  /\ lastSave = NotCalled
  /\ loaded = NotCalled
  /\ merge = NotCalled
  /\ PathsIdle
  /\ TitlesIdle
  /\ StartIdle
  /\ PipelineIdle

NextAnswers ==
  \/ \E answers \in AnswerDicts, slides_info \in {{}, Slides},
        analysis_status \in {"completed", "partial", "failed"} :
       /\ save_cached_answers(answers, slides_info, analysis_status)
       /\ UNCHANGED <<pipelineVars, pathVars, titleVars, startVars>>
  \/ load_cached_answers /\ UNCHANGED <<pipelineVars, pathVars, titleVars, startVars>>
  \/ \E n \in 1..MaxProblems : \E problems \in [1..n -> Problems] :
       /\ get_cached_answers_for_problems(problems)
       /\ UNCHANGED <<pipelineVars, pathVars, titleVars, startVars>>

SpecAnswers == InitAnswers /\ [][NextAnswers]_vars

(* -------------------------- PPTManager.start -------------------------- *)
\* AsyncImageDownloader.download_image(self, session, slide, img_path)
DownloadImageParameters == {"session", "slide", "img_path"}
\* the keyword arguments PPTManager passes at lines 101-105 and 193-197
PPTManagerKeywords == {"url", "save_path", "target_format"}

\* calling a coroutine function binds the arguments at once: a keyword that is
\* no parameter, or a missing parameter, raises TypeError at the call
CallRaises(keywords) == keywords # DownloadImageParameters

\* PPTManager.get_missing_images: the slides whose image fails validate_image
IsMissing(i) == ~validate_image(final[i])
get_missing_images == SelectSeq(AllSlides, IsMissing)

\* faulty variant: the exception leaves download()
Caught_never(e) == FALSE

\* lines 87-88 and 174-175: `except Exception` around the event loop run
Caught(e) == TRUE

\* an exception ends the coroutine and run_until_complete; the handler of the
\* thread function prints it, else it leaves future.result() and start()
Fault(e, next) ==
  startRun' = IF Caught(e) THEN [pc |-> next, faults |-> startRun.faults + 1]
              ELSE [startRun EXCEPT !.pc = "raised"]

\* start lines 306-308: the title was entered by __init__; download() is called
StartBegin ==
  /\ startRun.pc = "none"
  /\ manager
  /\ startRun' = [startRun EXCEPT !.pc = "download"]
  /\ UNCHANGED <<pipelineVars, pathVars, titleVars, answerVars>>

\* download lines 77-92 with _async_download_all lines 97-117: the thread runs
\* the coroutine to its end and future.result() waits for the thread
DownloadAll ==
  /\ startRun.pc = "download"
  /\ IF AllSlides # <<>> /\ CallRaises(PPTManagerKeywords)
       THEN \* the first download_image call of the loop raises: no task exists
            /\ Fault("TypeError", "retry")
            /\ UNCHANGED <<inputVars, taskVars>>
       ELSE /\ startRun' = [startRun EXCEPT !.pc = "gather"]
            /\ Launch(Slides)
            /\ UNCHANGED <<inputVars, cb>>
  /\ UNCHANGED <<mgrVars, docVars, pathVars, titleVars, answerVars>>

\* download line 95: retry_failed_downloads lines 163-178 with
\* _async_retry_downloads lines 180-221
RetryFailedDownloads ==
  /\ startRun.pc = "retry"
  /\ IF get_missing_images = <<>>
       THEN \* line 185: nothing is missing, the loop is left
            startRun' = [startRun EXCEPT !.pc = "generate"]
       ELSE IF CallRaises(PPTManagerKeywords)
         THEN Fault("TypeError", "generate")
         ELSE startRun' = [startRun EXCEPT !.pc = "gather"]
  /\ UNCHANGED <<pipelineVars, pathVars, titleVars, answerVars>>

\* start lines 312-315: generate_ppt has returned; start returns its result
StartReturn ==
  /\ startRun.pc = "generate"
  /\ runsLog # <<>>
  /\ startRun' = [startRun EXCEPT !.pc = "done"]
  /\ UNCHANGED <<pipelineVars, pathVars, titleVars, answerVars>>

\* one PPTManager is constructed and started; every source serves a valid image
InitStart ==
  /\ InitPPT

NextStart ==
  \/ ~manager /\ NewManager
  \/ StartBegin
  \/ DownloadAll
  \/ RetryFailedDownloads
  \/ startRun.pc = "generate" /\ runsLog = <<>> /\ generate_ppt
  \/ StartReturn

SpecStart == InitStart /\ [][NextStart]_vars

(* ============================== claims ================================ *)

\* the latest download_image call for slide i has returned and nothing outside
\* the pipeline has touched the slide's final file since
Returned(i) == pc[i] = "done" /\ ~modified[i]

\* C1 (SpecPPT): two successive generate_ppt runs for the same collection over
\* the same cache directory (each by a new PPTManager, nothing else touching the
\* cache in between) compute the same fingerprint, and the second run returns
\* the name of the first run's document without creating a document, also when
\* slides carry a 'problem' annotation.
C1_AssembleTwiceOneDocument ==
  \A r \in 1..(Len(runsLog) - 1) :
    (runsLog[r].fresh /\ runsLog[r + 1].fresh)
      => /\ runsLog[r + 1].hash = runsLog[r].hash
         /\ runsLog[r + 1].ret = runsLog[r].ret
         /\ ~runsLog[r + 1].created

\* C2 (SpecFetch): with skip_existing enabled, when a download_image call for a
\* slide returned success and the final file was not modified afterwards, the
\* next call for that slide returns success with skipped = True and issues no
\* network request.
C2_IdempotentFetch ==
  \A i \in Slides :
    (/\ skip_existing
     /\ pc[i] = "done"
     /\ calls[i] >= 2
     /\ prev[i].state = "ok"
     /\ ~prevModified[i])
    => (res[i] = Success(TRUE) /\ netCalls[i] = 0)

\* a second call returned after a first call that fetched the file over the network
C2_Witness ==
  \E i \in Slides :
    /\ skip_existing
    /\ pc[i] = "done"
    /\ calls[i] = 2
    /\ prev[i] = Success(FALSE)
    /\ ~prevModified[i]
    /\ res[i] = Success(TRUE)

\* C3 (SpecRetry): at most max_concurrent download_image tasks are inside their
\* network request at the same time; the other dispatched tasks wait.
C3_ConcurrencyBound ==
  Cardinality({i \in Slides : pc[i] = "net"}) <= MaxConcurrent

\* the gate is full and another dispatched task waits at the semaphore
C3_Witness ==
  /\ Cardinality({i \in Slides : pc[i] = "net"}) = MaxConcurrent
  /\ \E i \in Slides : pc[i] = "queued"

\* every slide has a source URL, and a source that fails fewer than the
\* manager's max_retries times before it succeeds, and is fetched in this run
C4_Hypothesis ==
  \A i \in Slides :
    /\ cover[i] # ""
    /\ plan[i].kind = "planned"
    /\ plan[i].k < ManagerMaxRetries
    /\ ~ShouldSkip(i)

\* C4 (FairSpecRetry): when every asset's fetch fails exactly k times and then
\* succeeds, with k smaller than the manager's max_retries, download_with_retry
\* eventually returns a report with successful = total and failed = 0.
C4_RetryConvergence ==
  C4_Hypothesis
    => <>(mpc = "done" /\ report.successful = report.total /\ report.failed = 0)

\* the run returned all-successful after a slide needed a second round
C4_Witness ==
  /\ mpc = "done"
  /\ \A i \in Slides :
       cover[i] # "" /\ plan[i].kind = "planned" /\ plan[i].k < ManagerMaxRetries
  /\ \E i \in Slides : plan[i].k >= DownloaderMaxRetries /\ dispatched[i] = 2
  /\ \A i \in Slides : dispatched[i] >= 1 /\ IsSuccess(i)
  /\ report.successful = report.total
  /\ report.failed = 0

\* slides with a source URL whose every fetch attempt fails and that are not
\* skipped as already valid
AlwaysFailing == {i \in Slides : cover[i] # "" /\ plan[i] = Always /\ ~ShouldSkip(i)}

\* C5 (FairSpecRetry): assets whose every fetch attempt fails are dispatched in
\* exactly max_retries rounds; then download_with_retry terminates and returns a
\* report that counts them as failed.
C5_BudgetExhausted ==
  /\ <>(mpc = "done")
  /\ [](mpc = "done" =>
          /\ \A i \in AlwaysFailing :
               /\ dispatched[i] = ManagerMaxRetries
               /\ i \notin SeqToSet(all_successful)
          /\ report.failed >= Cardinality(AlwaysFailing)
          /\ report.total = report.successful + report.failed)

\* the run returned with an always-failing slide beside a slide that succeeded
C5_Witness ==
  /\ mpc = "done"
  /\ AlwaysFailing # {}
  /\ \E i \in AlwaysFailing : dispatched[i] = ManagerMaxRetries /\ IsFailure(i)
  /\ report.successful >= 1

\* the last outcome of slide i in the run: success when its last fetch task
\* succeeded or when the pre-filter skipped it as already valid
LastOutcomeSuccess(i) ==
  IF dispatched[i] > 0 THEN IsSuccess(i) ELSE ShouldSkip(i)

\* C6 (SpecRetry): in the final report of download_with_retry, successful is the
\* number of assets whose last outcome was success (fetched, or skipped because
\* already valid in the cache) and failed the number whose last outcome was
\* failure; an asset already valid in the cache is never counted as failed.
C6_ReportCountsOutcomes ==
  mpc = "done" =>
    /\ report.successful = Cardinality({i \in Slides : LastOutcomeSuccess(i)})
    /\ report.failed = Cardinality({i \in Slides : ~LastOutcomeSuccess(i)})

\* C7 (SpecFetch): when download_image has returned, with success or failure,
\* the temporary file <index>_temp of that asset does not exist.
C7_NoOrphanTemp ==
  \A i \in Slides : Returned(i) => ~temp[i].exists

\* a call returned after an attempt had written the temporary file: a failure
\* whose last attempt did not decode, and a success
C7_Witness ==
  \E i \in Slides :
    /\ Returned(i)
    /\ res[i] \in {Failure("decode"), Success(FALSE)}
    /\ netCalls[i] = DownloaderMaxRetries

\* C8 (SpecFetch): when download_image returns a failure, there is no file at
\* <index>.jpg that was not already there before the call.
C8_FailureLeavesNoNewFinal ==
  \A i \in Slides :
    (Returned(i) /\ IsFailure(i)) => (~final[i].exists \/ final[i] = preFinal[i])

\* a call failed in its last attempt while writing the final file
C8_Witness ==
  \E i \in Slides : Returned(i) /\ res[i] = Failure("saveio") /\ ~preFinal[i].exists

\* C9 (SpecFetch): when download_image returns a failure, the files of the
\* destination directory are the same as before the call: nothing new is left
\* and no file that existed before, temporary or final, is removed or changed.
C9_FailureRestoresDirectory ==
  \A i \in Slides :
    (Returned(i) /\ IsFailure(i)) => (final[i] = preFinal[i] /\ temp[i] = preTemp[i])

\* C10 (SpecRetry): an asset with an empty source URL, once reported as failed,
\* is never dispatched again in a later round, and it is counted as failed in
\* the final report.
C10_EmptySourceNotRetried ==
  \A i \in Slides :
    cover[i] = "" =>
      /\ dispatched[i] <= 1
      /\ (mpc = "done" => i \notin SeqToSet(all_successful))

\* C11 (SpecFetch): for a slide whose 'cover' URL is empty or absent,
\* download_image returns a failure at once: the call never reaches a network
\* request or a suspension point of the retry loop, and it creates, changes and
\* removes no file.
C11_EmptyUrlFailsAtOnce ==
  \A i \in Slides :
    cover[i] \in {"", KeyAbsent} =>
      /\ pc[i] \in {"none", "queued", "done"}
      /\ netCalls[i] = 0
      /\ (calls[i] >= 1 /\ ~modified[i]) => (final[i] = preFinal[i] /\ temp[i] = preTemp[i])
      /\ Returned(i) => res[i] = Failure("empty url")

\* a call for a slide without a 'cover' key returned, with a cached file in place
C11_Witness ==
  \E i \in Slides :
    /\ cover[i] = KeyAbsent
    /\ Returned(i)
    /\ preFinal[i].exists
    /\ res[i] = Failure("empty url")

\* C12 (SpecBatch): with skip_existing enabled, download_slides reports skipped
\* equal to the number of slides of the batch whose final file was valid when
\* the batch started, and network requests are issued only for the other
\* slides of the batch.
C12_SkippedCountsValid ==
  skip_existing =>
    /\ batch.skipped = Cardinality(batch.valid_at_start)
    /\ batch.requested \subseteq (SeqToSet(batch.slides) \ batch.valid_at_start)

\* a batch returned after one slide was skipped as valid and the other fetched
C12_Witness ==
  /\ skip_existing
  /\ batch.returned
  /\ batch.skipped = 1
  /\ Cardinality(batch.valid_at_start) = 1
  /\ batch.requested = SeqToSet(batch.slides) \ batch.valid_at_start
  /\ batch.requested # {}

\* the tasks download_slides created in the batch, by how they ended
BatchSucceeded == {i \in SeqToSet(batch.to_download) : res[i].state = "ok"}
BatchFailed == {i \in SeqToSet(batch.to_download) : res[i].state \in {"fail", "raised"}}
BatchPrefiltered == SeqToSet(batch.slides) \ SeqToSet(batch.to_download)

\* C13 (SpecBatch): in every report download_slides returns, skipped is the
\* number of slides the pre-filter skipped, successful is skipped plus the
\* number of dispatched slides whose outcome was success, failed is the number
\* of dispatched slides whose outcome was failure, and successful + failed =
\* total, for every batch and every retry budget of the downloader.
C13_BatchReportAddsUp ==
  batch.returned =>
    /\ batch.total = Len(batch.slides)
    /\ batch.skipped = Cardinality(BatchPrefiltered)
    /\ batch.successful = batch.skipped + Cardinality(BatchSucceeded)
    /\ batch.failed = Cardinality(BatchFailed)
    /\ batch.successful + batch.failed = batch.total

\* a batch returned a report with one slide skipped and one failed
C13_Witness ==
  /\ batch.returned
  /\ batch.skipped = 1
  /\ batch.failed = 1
  /\ batch.successful = 1

\* C14 (SpecBatch): after a round of download_slides, while rounds remain, every
\* slide of the round whose outcome was failure, a task that ended with an
\* unexpected exception included, is among the slides download_with_retry
\* hands to the next round.
C14_FailedAreRedispatched ==
  mpc = "backoff" =>
    \A i \in BatchFailed : i \in SeqToSet(remaining)

\* the task of slide i ended with an exception in the batch in progress or just returned
FaultedInBatch(i) == i \in SeqToSet(batch.to_download) /\ pc[i] = "raised"

\* the siblings of a faulted task have all run to an outcome of their own
SiblingsEnded ==
  \A j \in SeqToSet(batch.to_download) :
    /\ pc[j] \in {"done", "raised"}
    /\ res[j].state \in {"ok", "fail", "raised"}

\* C15 (FairSpecBatch): an unexpected fault in the fetch task of one slide never
\* aborts the batch: download_slides does not raise, it returns only when every
\* sibling task has run to its own outcome, it records the fault in failed and
\* failed_list, and after a fault it does eventually return its report.
C15_FaultIsolated ==
  /\ [](\A i \in Slides :
          FaultedInBatch(i) =>
            /\ mpc # "raised"
            /\ mpc # "gather" =>
                  /\ batch.returned
                  /\ SiblingsEnded
                  /\ [error |-> res[i].error] \in SeqToSet(batch.failed_list)
                  /\ batch.failed >= 1)
  /\ \A i \in Slides :
       (mpc = "gather" /\ FaultedInBatch(i)) ~> (mpc # "gather" /\ batch.returned)

\* a batch returned after one task faulted and its sibling succeeded afterwards
C15_Witness ==
  /\ batch.returned
  /\ Len(batch.to_download) = 2
  /\ FaultedInBatch(batch.to_download[1])
  /\ res[batch.to_download[2]] = Success(FALSE)
  /\ batch.failed = 1
  /\ batch.successful = 1

\* C20 (SpecBatch): when download_slides has returned its report, the progress
\* callback has been invoked exactly once for every slide of the batch, whatever
\* the slide's outcome was (success, skipped, or a failure of any kind, an empty
\* source URL included).
C20_CallbackOncePerAsset ==
  batch.returned => \A i \in SeqToSet(batch.slides) : cb[i] = 1

\* the record of the latest generate_ppt call (docs is the directory as it left it)
LastRun == runsLog[Len(runsLog)]

\* C16 (SpecPPT): generate_ppt never renames, overwrites, replaces or deletes a
\* document that already exists in the lesson download directory: every
\* document there before the call has the same name and content after it, and
\* a new document created while <title>.pdf is occupied gets the
\* timestamp-suffixed name.
C16_ExistingDocsUntouched ==
  runsLog # <<>> =>
    /\ \A n \in DocNames :
         LastRun.docsBefore[n].exists => docs[n] = LastRun.docsBefore[n]
    /\ (LastRun.created /\ LastRun.docsBefore[0].exists) => LastRun.ret # 0

\* C17 (SpecPPT): if a .pdf of the lesson download directory, under whatever
\* name, carries the fingerprint generate_ppt has just computed, generate_ppt
\* returns the name of a document with that fingerprint and creates no document.
C17_MatchingDocReturned ==
  runsLog # <<>> =>
    ((\E n \in DocNames : /\ LastRun.docsBefore[n].exists
                          /\ LastRun.docsBefore[n].keywords = LastRun.hash)
      => /\ ~LastRun.created
         /\ docs[LastRun.ret].keywords = LastRun.hash)

\* the slides with a valid cache entry, in collection order
HasValidImage(i) == _is_valid_image(final[i])
ValidSlides == SelectSeq(AllSlides, HasValidImage)

\* C18 (SpecPPT): when some slides have no valid cache entry at assembly time,
\* generate_ppt excludes exactly those slides: only the valid ones contribute a
\* digest to the fingerprint, and a document it creates has one page per valid
\* slide, in collection order, and no other page.
C18_InvalidAssetsExcluded ==
  (runsLog # <<>> /\ ValidSlides # AllSlides) =>
    /\ LastRun.digested = ValidSlides
    /\ LastRun.created =>
         docs[LastRun.ret].pages =
           [n \in 1..Len(ValidSlides) |-> [slide |-> ValidSlides[n], blank |-> FALSE]]

\* C19 (SpecPPT): whenever generate_ppt has returned, the name it returned is
\* the name of a document file that exists in the lesson download directory.
C19_ReturnedDocExists ==
  \A r \in 1..Len(runsLog) :
    /\ runsLog[r].ret \in DocNames
    /\ docs[runsLog[r].ret].exists

\* a second call returned the timestamp-suffixed name of the document it created,
\* the first call having returned an existing document
C19_Witness ==
  /\ Len(runsLog) = 2
  /\ ~runsLog[1].created
  /\ runsLog[2].created
  /\ runsLog[2].ret # 0
  /\ docs[runsLog[2].ret].keywords = runsLog[2].hash

\* C21 (SpecPresentation): with skip_existing enabled, a download_presentation
\* call that finds a valid cache entry for every slide returns a report with
\* skipped = successful = total and failed = 0, issues no network request and
\* changes no cached file; a second call after a fully successful first one is
\* such a call.
C21_AllCachedSkipsAll ==
  (mpc = "done" /\ skip_existing /\ pres.calls >= 1) =>
    /\ pres.allValid =>
         /\ report = [total |-> NumSlides, successful |-> NumSlides,
                       failed |-> 0, skipped |-> NumSlides]
         /\ pres.requested = {}
         /\ final = pres.finalAtStart
         /\ \A i \in Slides : ~temp[i].exists
    /\ pres.prevFull => pres.allValid

\* a second call returned after a first call that fetched every slide
C21_Witness ==
  /\ mpc = "done"
  /\ skip_existing
  /\ pres.calls = 2
  /\ pres.prevFull
  /\ \A i \in Slides : dispatched[i] >= 1
  /\ report.skipped = NumSlides

\* the task of slide i in the batch has got past the semaphore
Entered(i) == pc[i] \notin {"none", "queued"}

\* C22 (SpecBatch): with skip_existing disabled, download_slides reports
\* skipped = 0 and creates a fetch task for every slide of the batch, and the
\* task of a slide that has a URL issues its request also when the slide's
\* final file already exists and is valid.
C22_NoSkipWhenDisabled ==
  (~skip_existing /\ batch.slides # <<>>) =>
    /\ batch.skipped = 0
    /\ batch.to_download = batch.slides
    /\ \A i \in SeqToSet(batch.slides) :
         (Entered(i) /\ cover[i] # "" /\ max_retries > 0) => i \in batch.requested

\* a batch returned after fetching a slide whose final file was valid at the start
C22_Witness ==
  /\ ~skip_existing
  /\ batch.returned
  /\ batch.skipped = 0
  /\ \E i \in batch.valid_at_start : i \in batch.requested /\ res[i] = Success(FALSE)

\* C23 (SpecPaths): for two collections whose (lesson name, title) keys
\* differ, no file a pipeline run for one collection has written lies in or
\* below the cache directory the same pipeline uses for the other collection.
C23_CachesDisjoint ==
  \A f \in cachefs : \A d \in Collections :
    (d # f.by /\ coll[d] # coll[f.by]) => ~Under(f.dir, ImgPathOf(f.via, coll[d]))

\* thread t is inside start(), between the title_dict check and the removal
InStart(t) == inst[t].pc \in {"running", "del_check", "deleting"}

\* C24 (SpecTitles): for any interleaving of the construction and start() calls
\* of PPTManager instances in several threads, no two start() runs for the
\* same title are between their title_dict check and their title_dict removal
\* at the same time.
C24_OneRunPerTitle ==
  \A t, u \in Threads :
    (t # u /\ InStart(t) /\ InStart(u)) => inst[t].title # inst[u].title

\* what the check is to report for file f: present, at least 10 bytes, decodable
SoundImage(f) == f.exists /\ f.size >= MinImageBytes /\ f.image

\* C25 (SpecFetch): _is_valid_image never raises; it answers false for an absent
\* file, a file under 10 bytes and a file that does not decode or read, and it
\* looks at the disk on every query: a call that follows a successful one, after
\* the cached file was removed or made invalid, does not skip.
C25_CheckTotalAndFresh ==
  \A i \in Slides :
    /\ CheckOutcome(final[i]) = (IF SoundImage(final[i]) THEN "True" ELSE "False")
    /\ res[i] # Raised("check")
    /\ (/\ skip_existing
        /\ Returned(i)
        /\ calls[i] >= 2
        /\ prev[i].state = "ok"
        /\ ~SoundImage(preFinal[i]))
       => (res[i] # Success(TRUE) /\ netCalls[i] >= 1)

\* after a success the cached file was replaced by one that does not decode;
\* the next call found it invalid and fetched again
C25_Witness ==
  \E i \in Slides :
    /\ skip_existing
    /\ Returned(i)
    /\ calls[i] = 2
    /\ prev[i].state = "ok"
    /\ prevModified[i]
    /\ preFinal[i] = Corrupt
    /\ res[i] = Success(FALSE)

Cached == LoadResult(cacheFile)

\* the problem's index has a non-empty cached answer
HasCachedAnswer(p) ==
  /\ ~Cached.none
  /\ p.index # NoIndex
  /\ StrKey(p.index.v) \in DOMAIN Cached.dict
  /\ Cached.dict[StrKey(p.index.v)] # <<>>

\* C27 (SpecAnswers): get_cached_answers_for_problems gives exactly the problems
\* whose slide index has a non-empty cached answer that answer and returns all
\* other problems as they were; without a cache the list comes back unchanged.
C27_MergeReplacesExactlyCached ==
  merge.called =>
    /\ Len(merge.result) = Len(merge.problems)
    /\ \A n \in 1..Len(merge.problems) :
         merge.result[n] =
           IF HasCachedAnswer(merge.problems[n])
             THEN [index |-> merge.problems[n].index,
                   answers |-> Cached.dict[StrKey(merge.problems[n].index.v)]]
             ELSE merge.problems[n]
    /\ Cached.none => merge.result = merge.problems

\* a list of two problems met a cache with an answer for the first, an empty
\* answer for the second: the first was replaced, the second kept
C27_Witness ==
  /\ merge.called
  /\ Len(merge.problems) = 2
  /\ HasCachedAnswer(merge.problems[1])
  /\ merge.result[1].answers # merge.problems[1].answers
  /\ merge.problems[2].index # NoIndex
  /\ ~Cached.none
  /\ StrKey(merge.problems[2].index.v) \in DOMAIN Cached.dict
  /\ Cached.dict[StrKey(merge.problems[2].index.v)] = <<>>
  /\ merge.result[2] = merge.problems[2]

\* C28 (SpecFetch): the temporary file is removed after every attempt, failed
\* or not: during the backoff sleep and at the start of every attempt after
\* the first there is no file at <index>_temp.
C28_NoTempBetweenAttempts ==
  \A i \in Slides :
    (pc[i] = "sleep" \/ (pc[i] = "net" /\ attempt[i] >= 1)) => ~temp[i].exists

\* C29 (SpecFetch): no partial file is visible at the final path: in every
\* state of a fetch the file at <index>.jpg is absent, is a complete valid
\* image, or is still the file the call found there.
C29_NoPartialFinal ==
  \A i \in Slides :
    pc[i] \notin {"none", "done", "raised"}
    => (~final[i].exists \/ SoundImage(final[i]) \/ final[i] = preFinal[i])

\* C30 (SpecFetchShared): with skip_existing the validity of the final path is
\* tested before every attempt of the retry loop: an attempt after the first
\* sends no request when the final file is valid at its start.
C30_CheckedBeforeEveryAttempt ==
  \A i \in Slides :
    (skip_existing /\ pc[i] = "net" /\ attempt[i] >= 1) => ~SoundImage(final[i])

\* the digest the latest generate_ppt call entered for the n-th slide it digested
DigestEntered(n) ==
  LastRun.hash.sha256[Len(LastRun.hash.sha256) - Len(LastRun.digested) + n]

\* C31 (SpecPPT): for every slide that owes an annotation, generate_ppt applies
\* the annotation to the cached file before it computes the file's digest: the
\* digest that enters the fingerprint is the digest of the annotated file.
C31_DigestAfterAnnotation ==
  runsLog # <<>> =>
    \A n \in 1..Len(LastRun.digested) :
      LastRun.digested[n] \in LastRun.annotated
        => DigestEntered(n) = get_md5(final[LastRun.digested[n]])

\* C32 (SpecPPT): the fingerprint generate_ppt computes is a function only of
\* the ordered digests of the cached files it finds, in collection order: it is
\* the hash of exactly those digests, so two calls that see the same files
\* compute the same fingerprint, whatever ran before on the instance and
\* whichever instance makes the call.
C32_FingerprintOfCacheOnly ==
  \A r, q \in 1..Len(runsLog) :
    /\ runsLog[r].hash = get_sha256(runsLog[r].seen)
    /\ runsLog[r].seen = runsLog[q].seen => runsLog[r].hash = runsLog[q].hash

\* a round of download_with_retry has just dispatched its tasks
RoundStarted ==
  mpc = "gather" /\ \A i \in SeqToSet(batch.to_download) : pc[i] = "queued"

\* C33 (SpecRetryShared): at the start of every round of download_with_retry
\* the work set is recomputed from the disk: the slides the round dispatches
\* are exactly the slides of the collection whose cache entry is missing or
\* invalid at that moment.
C33_DispatchSetFromDisk ==
  (skip_existing /\ RoundStarted)
    => SeqToSet(batch.to_download) = {i \in Slides : ~SoundImage(final[i])}

\* C34 (SpecBatch): in download_with_retry every round after the first is
\* preceded by the backoff wait, and a backoff is waited only between two
\* rounds: never after the last round of the run and never after a round
\* without failures.
C34_BackoffOnlyBetweenRounds ==
  [][/\ (mpc # "gather" /\ mpc' = "gather") => mpc \in {"idle", "backoff"}
     /\ mpc' = "backoff" => /\ batch'.failed_list # <<>>
                            /\ round' < ManagerMaxRetries - 1
                            /\ remaining' # <<>>]_vars

\* a fetch task of the run has started and not ended
InFlight(i) == pc[i] \notin {"none", "done", "raised"}

\* C35 (SpecStart): in PPTManager.start, generate_ppt begins only after the
\* download pass and the retry rounds have ended; while it runs no fetch task
\* is in flight, and a fault in the download phase does not keep generate_ppt
\* from running: start never ends with the fault, and it returns only after
\* generate_ppt has run.
C35_AssembleAfterDownload ==
  /\ runsLog # <<>> => startRun.pc \in {"generate", "done"}
  /\ startRun.pc \in {"generate", "done"} => \A i \in Slides : ~InFlight(i)
  /\ startRun.pc # "raised"
  /\ startRun.pc = "done" => Len(runsLog) = 1

\* both download passes ended with a fault and start returned a document
C35_Witness ==
  /\ startRun.pc = "done"
  /\ startRun.faults = 2
  /\ Len(runsLog) = 1
  /\ docs[LastRun.ret].exists

\* C36 (SpecStart): for a collection with slides whose every source always
\* serves a valid image, every slide has a valid cache entry when download()
\* has returned: get_missing_images() is empty.
C36_DownloadFillsCache ==
  (/\ startRun.pc = "generate"
   /\ runsLog = <<>>
   /\ \A i \in Slides : cover[i] = "u" /\ plan[i] = Planned(0))
  => get_missing_images = <<>>

\* C37 (SpecPaths): download_presentation and PPTManager resolve the same cache
\* location for the same (lesson name, title): the directory into which
\* download_presentation writes <index>.jpg is the imgpath PPTManager uses for
\* that collection, and it depends on the key alone.
C37_SameCacheLocation ==
  \A f, g \in cachefs : f.by = g.by => f.dir = g.dir

\* C38 (SpecPPT): the name generate_ppt returns is a name made from the
\* collection's own title (<title>.pdf or <title><timestamp>.pdf), and the
\* document of that name carries the fingerprint computed in the call.
C38_ReturnedDocIsOwn ==
  runsLog # <<>> =>
    /\ LastRun.ret \in OwnDocNames
    /\ docs[LastRun.ret].keywords = LastRun.hash

\* C39 (SpecAnswers): save_cached_answers never removes or changes a manual
\* answer that is in the cache file: every key of manual_answers before a save
\* is there with the same value after it, for every analysis_status and every
\* sequence of saves.
C39_ManualAnswersKept ==
  [][\A k \in DOMAIN cacheFile.manual_answers :
       /\ k \in DOMAIN cacheFile'.manual_answers
       /\ cacheFile'.manual_answers[k] = cacheFile.manual_answers[k]]_vars

\* a save that generated a template for slide 2 found a manual answer for
\* slide 1, for which it had no AI answer, and kept it
C39_Witness ==
  /\ lastSave.called
  /\ lastSave.manualBefore = [k \in {StrKey(1)} |-> <<1>>]
  /\ StrKey(1) \notin DOMAIN lastSave.answers
  /\ cacheFile.manual_answers = (StrKey(1) :> <<1>>) @@ (StrKey(2) :> <<>>)

\* C40 (SpecRetry): during one download_with_retry call the requests sent for
\* an asset number at most the manager's max_retries (rounds) times the
\* downloader's max_retries (attempts per round), and the call runs at most
\* the manager's max_retries rounds of download_slides.
C40_RequestBudget ==
  /\ \A i \in Slides : pres.sent[i] <= ManagerMaxRetries * max_retries
  /\ \A i \in Slides : dispatched[i] <= ManagerMaxRetries
  /\ round <= ManagerMaxRetries
  /\ mpc \in {"gather", "backoff"} => round < ManagerMaxRetries

\* a slide whose source always fails used the whole budget
C40_Witness ==
  /\ mpc = "done"
  /\ \E i \in Slides : /\ pres.sent[i] = ManagerMaxRetries * DownloaderMaxRetries
                        /\ dispatched[i] = ManagerMaxRetries

====
